---- MODULE Spec2Model ----
(***************************************************************************)
(* Model of app_v2.py: the chess robot controller.  A run parses two       *)
(* coordinates, validates them, loads command.json and replays the fixed   *)
(* eleven-step pick-and-place plan, each step through its own MCP session. *)
(* Strings that the program inspects character by character are modelled   *)
(* as sequences of one-character strings.                                  *)
(***************************************************************************)
EXTENDS Integers, Sequences, FiniteSets, TLC

\* ---------------------------------------------------------------- bounds
\* Longest NamedSequence of the command.json contents that are explored.
MaxSeqLen == 2

\* Calls of move_chess_piece made one after the other.
MaxRuns == 2

\* Longest raw argument explored when the pure functions are exercised.
MaxStrLen == 3

\* ------------------------------------------------------- static program data
\* POSITION_DATA literal, one tuple <<column, row, forward, rotation>> per key.
POSITION_ENTRIES ==
    << 
       <<"a", "8", 30, -90>>, <<"a", "7", 70, -90>>, <<"a", "6", 120, -90>>, <<"a", "5", 150, -90>>,
       <<"a", "4", 180, -90>>, <<"a", "3", 210, -90>>, <<"a", "2", 240, -90>>, <<"a", "1", 270, -90>>,
       <<"b", "8", 42, -45>>, <<"b", "7", 98, -45>>, <<"b", "6", 169, -45>>, <<"b", "5", 212, -45>>,
       <<"b", "4", 254, -45>>, <<"b", "3", 297, -45>>, <<"b", "2", 339, -45>>, <<"b", "1", 382, -45>>,
       <<"c", "8", 32, -22>>, <<"c", "7", 76, -22>>, <<"c", "6", 130, -22>>, <<"c", "5", 163, -22>>,
       <<"c", "4", 195, -22>>, <<"c", "3", 228, -22>>, <<"c", "2", 260, -22>>, <<"c", "1", 292, -22>>,
       <<"d", "8", 30, 0>>, <<"d", "7", 70, 0>>, <<"d", "6", 120, 0>>, <<"d", "5", 150, 0>>,
       <<"d", "4", 180, 0>>, <<"d", "3", 210, 0>>, <<"d", "2", 240, 0>>, <<"d", "1", 270, 0>>,
       <<"e", "8", 32, 22>>, <<"e", "7", 76, 22>>, <<"e", "6", 130, 22>>, <<"e", "5", 163, 22>>,
       <<"e", "4", 195, 22>>, <<"e", "3", 228, 22>>, <<"e", "2", 260, 22>>, <<"e", "1", 292, 22>>,
       <<"f", "8", 42, 45>>, <<"f", "7", 98, 45>>, <<"f", "6", 169, 45>>, <<"f", "5", 212, 45>>,
       <<"f", "4", 254, 45>>, <<"f", "3", 297, 45>>, <<"f", "2", 339, 45>>, <<"f", "1", 382, 45>>,
       <<"g", "8", 78, 67>>, <<"g", "7", 179, 67>>, <<"g", "6", 307, 67>>, <<"g", "5", 384, 67>>,
       <<"g", "4", 461, 67>>, <<"g", "3", 538, 67>>, <<"g", "2", 614, 67>>, <<"g", "1", 691, 67>>,
       <<"h", "8", 30, 90>>, <<"h", "7", 70, 90>>, <<"h", "6", 120, 90>>, <<"h", "5", 150, 90>>,
       <<"h", "4", 180, 90>>, <<"h", "3", 210, 90>>, <<"h", "2", 240, 90>>, <<"h", "1", 270, 90>>
    >>

POSITION_KEYS == { <<POSITION_ENTRIES[n][1], POSITION_ENTRIES[n][2]>> : n \in DOMAIN POSITION_ENTRIES }

\* LastEntry reading the two numbers of an entry in the wrong order.
LastEntry_swapped(key) ==
    LET hits == { n \in DOMAIN POSITION_ENTRIES :
                    <<POSITION_ENTRIES[n][1], POSITION_ENTRIES[n][2]>> = key }
        n == CHOOSE m \in hits : \A o \in hits : o <= m
    IN  [forward |-> POSITION_ENTRIES[n][4], rotation |-> POSITION_ENTRIES[n][3]]

\* A dict literal keeps the last value written for a key.
LastEntry(key) ==
    LET hits == { n \in DOMAIN POSITION_ENTRIES :
                    <<POSITION_ENTRIES[n][1], POSITION_ENTRIES[n][2]>> = key }
        n == CHOOSE m \in hits : \A o \in hits : o <= m
    IN  [forward |-> POSITION_ENTRIES[n][3], rotation |-> POSITION_ENTRIES[n][4]]

POSITION_DATA == [key \in POSITION_KEYS |-> LastEntry(key)]

\* The labels move_chess_piece asks the Command Store for by name.
ATTACK == <<"a", "t", "t", "a", "c", "k">>
OPEN == <<"o", "p", "e", "n">>
CLOSE == <<"c", "l", "o", "s", "e">>
MOVE_FOR_CAM == <<"m", "o", "v", "e", "_", "f", "o", "r", "_", "c", "a", "m">>
\* Name under which the synthesized home sequence is announced.
HOME == <<"h", "o", "m", "e">>

\* ------------------------------------------------------------ pure functions
UpperCase == <<"A", "B", "C", "D", "E", "F", "G", "H", "I">>
LowerCase == <<"a", "b", "c", "d", "e", "f", "g", "h", "i">>

\* str.lower(), character by character.
LowerChar(c) ==
    IF \E n \in DOMAIN UpperCase : UpperCase[n] = c
    THEN LowerCase[CHOOSE n \in DOMAIN UpperCase : UpperCase[n] = c]
    ELSE c

Lower(s) == [n \in DOMAIN s |-> LowerChar(s[n])]

\* validate_position testing the row before the column.
validate_position_rowfirst(position) ==
    IF Len(position) # 2 THEN [valid |-> FALSE, rule |-> "format"]
    ELSE IF position[2] \notin {"1", "2", "3", "4", "5", "6", "7", "8"}
         THEN [valid |-> FALSE, rule |-> "row"]
    ELSE IF position[1] \notin {"a", "b", "c", "d", "e", "f", "g", "h"}
         THEN [valid |-> FALSE, rule |-> "column"]
    ELSE IF position \notin DOMAIN POSITION_DATA
         THEN [valid |-> FALSE, rule |-> "unavailable"]
    ELSE [valid |-> TRUE, rule |-> "ok"]

\* validate_position: the rule that rejects, or "ok".
validate_position(position) ==
    IF Len(position) # 2 THEN [valid |-> FALSE, rule |-> "format"]
    ELSE IF position[1] \notin {"a", "b", "c", "d", "e", "f", "g", "h"}
         THEN [valid |-> FALSE, rule |-> "column"]
    ELSE IF position[2] \notin {"1", "2", "3", "4", "5", "6", "7", "8"}
         THEN [valid |-> FALSE, rule |-> "row"]
    ELSE IF position \notin DOMAIN POSITION_DATA
         THEN [valid |-> FALSE, rule |-> "unavailable"]
    ELSE [valid |-> TRUE, rule |-> "ok"]

Digits == <<"0", "1", "2", "3", "4", "5", "6", "7", "8", "9">>

RECURSIVE NatStr(_)
NatStr(n) == IF n < 10 THEN <<Digits[n + 1]>>
             ELSE NatStr(n \div 10) \o <<Digits[(n % 10) + 1]>>

\* str() of an integer.
Str(n) == IF n < 0 THEN <<"-">> \o NatStr(-n) ELSE NatStr(n)

Tool(arg, value) == [tool |-> "move_robot", args |-> [name |-> arg, value |-> value]]

\* create_home_sequence appending the rotation reset unconditionally.
create_home_sequence_always(forward_distance, rotation_angle) ==
    LET rotation_reset == IF rotation_angle # 0 THEN -rotation_angle ELSE 0
        home_sequence ==
            << Tool("move_gripper_up_mm", <<"5", "0">>),
               Tool("tilt_gripper_down_angle", <<"-", "8", "0">>),
               Tool("move_gripper_up_mm", <<"-", "7", "5">>),
               Tool("move_gripper_forward_mm", <<"-">> \o Str(forward_distance)) >>
    IN  Append(home_sequence, Tool("rotate_robot_right_angle", Str(rotation_reset)))

create_home_sequence(forward_distance, rotation_angle) ==
    LET rotation_reset == IF rotation_angle # 0 THEN -rotation_angle ELSE 0
        home_sequence ==
            << Tool("move_gripper_up_mm", <<"5", "0">>),
               Tool("tilt_gripper_down_angle", <<"-", "8", "0">>),
               Tool("move_gripper_up_mm", <<"-", "7", "5">>),
               Tool("move_gripper_forward_mm", <<"-">> \o Str(forward_distance)) >>
    IN  IF rotation_reset # 0
        THEN Append(home_sequence, Tool("rotate_robot_right_angle", Str(rotation_reset)))
        ELSE home_sequence

\* -------------------------------------------------------------------- inputs
PROG == <<"a", "p", "p">>
d7 == <<"d", "7">>
d5 == <<"d", "5">>
a7 == <<"a", "7">>

\* Command lines explored: sys.argv, program name first.
ArgChoices ==
    { <<PROG>>,
      <<PROG, d7>>,
      <<PROG, d7, d5, a7>>,
      <<PROG, d7, d5>>,
      <<PROG, <<"A", "7">>, d5>>,
      <<PROG, d5, a7>>,
      <<PROG, d5, <<"D", "5">>>>,
      <<PROG, <<"i", "9">>, d5>>,
      <<PROG, <<"d">>, d5>>,
      <<PROG, d7, <<"d", "9">>>>,
      <<PROG, d7, <<"D", "7", "x">>>> }

LabelUniverse == {ATTACK, OPEN, CLOSE, MOVE_FOR_CAM, d7, d5, a7}

\* A NamedSequence of n instructions; the second one is a delay directive.
CmdSeq(label, n) ==
    [j \in 1..n |-> IF j = 2 THEN [wait |-> 1] ELSE Tool(label, <<Digits[j + 1]>>)]

\* The contents of command.json that are explored.
Stores ==
    { [label \in present |-> CmdSeq(label, n)] :
        present \in SUBSET LabelUniverse, n \in 0..MaxSeqLen }

\* --------------------------------------------------------------------- state
VARIABLES
    sys_argv,       \* the command line
    fileState,      \* command.json: "ok", "missing" or "malformed"
    fileContent,    \* the mapping command.json holds when it parses
    pc,             \* position of the single thread of control
    from_position,  \* main / move_chess_piece arguments
    to_position,
    commands,       \* the loaded Command Store
    step,           \* STEP number of move_chess_piece, 1..11 (12: after the last)
    sequence,       \* argument of the running execute_robot_sequence
    idx,            \* position of its for loop
    session,        \* "none", "connected" (stdio_client entered), "initialized"
    openConns,      \* connections currently open
    connects,       \* connections opened so far
    executed,       \* history: calls of execute_robot_sequence
    events,         \* history: what each call did on the remote interface
    output,         \* history: the messages printed, by kind
    propagated,     \* history: functions that re-raised the exception
    outcome,        \* how the process ended, "" while running
    exit_status,    \* exit status of the process, -1 while running
    run             \* which call of move_chess_piece this is

vars == <<sys_argv, fileState, fileContent, pc, from_position, to_position,
          commands, step, sequence, idx, session, openConns, connects,
          executed, events, output, propagated, outcome, exit_status, run>>

inputs == <<sys_argv, fileState, fileContent>>
remote == <<session, openConns, connects, events>>
locals == <<from_position, to_position, commands, step, sequence, idx>>

Init ==
    /\ sys_argv \in ArgChoices
    /\ fileState \in {"ok", "missing", "malformed"}
    /\ fileContent \in IF fileState = "ok" THEN Stores ELSE {<<>>}
    /\ pc = "main"
    /\ from_position = <<>>
    /\ to_position = <<>>
    /\ commands = <<>>
    /\ step = 0
    /\ sequence = <<>>
    /\ idx = 0
    /\ session = "none"
    /\ openConns = 0
    /\ connects = 0
    /\ executed = <<>>
    /\ events = <<>>
    /\ output = <<>>
    /\ propagated = <<>>
    /\ outcome = ""
    /\ exit_status = -1
    /\ run = 1

\* A printed message, with the STEP during which it was printed.
Out(msg) == [msg |-> msg, step |-> step]

\* The process ends.  No path of lines 331-337 calls sys.exit or lets an
\* exception escape, so the interpreter exits with status 0.
Exit(result) ==
    /\ pc' = "exit"
    /\ outcome' = result
    /\ exit_status' = 0

\* ---------------------------------------------------------------------- main
\* MainArgs refusing only a command line that is too short.
MainArgs_atleast ==
    /\ pc = "main"
    /\ IF Len(sys_argv) < 3
       THEN /\ output' = Append(output, Out("usage"))
            /\ Exit("bad_arguments")
            /\ UNCHANGED <<from_position, to_position>>
       ELSE /\ from_position' = Lower(sys_argv[2])
            /\ to_position' = Lower(sys_argv[3])
            /\ pc' = "validate_from"
            /\ UNCHANGED <<output, outcome, exit_status>>
    /\ UNCHANGED <<inputs, run, remote, commands, step, sequence, idx, executed, propagated>>

\* main, lines 295-301: argument count, then lowercasing.
MainArgs ==
    /\ pc = "main"
    /\ IF Len(sys_argv) # 3
       THEN /\ output' = Append(output, Out("usage"))
            /\ Exit("bad_arguments")
            /\ UNCHANGED <<from_position, to_position>>
       ELSE /\ from_position' = Lower(sys_argv[2])
            /\ to_position' = Lower(sys_argv[3])
            /\ pc' = "validate_from"
            /\ UNCHANGED <<output, outcome, exit_status>>
    /\ UNCHANGED <<inputs, run, remote, commands, step, sequence, idx, executed, propagated>>

\* main, lines 304-308.
MainValidateFrom ==
    /\ pc = "validate_from"
    /\ IF ~validate_position(from_position).valid
       THEN /\ output' = output \o <<Out(validate_position(from_position).rule), Out("usage")>>
            /\ Exit("invalid_from")
       ELSE /\ pc' = "validate_to"
            /\ UNCHANGED <<output, outcome, exit_status>>
    /\ UNCHANGED <<inputs, run, remote, locals, executed, propagated>>

\* main, lines 310-314.
MainValidateTo ==
    /\ pc = "validate_to"
    /\ IF ~validate_position(to_position).valid
       THEN /\ output' = output \o <<Out(validate_position(to_position).rule), Out("usage")>>
            /\ Exit("invalid_to")
       ELSE /\ pc' = "check_same"
            /\ UNCHANGED <<output, outcome, exit_status>>
    /\ UNCHANGED <<inputs, run, remote, locals, executed, propagated>>

\* MainCheckSame without the comparison.
MainCheckSame_unchecked ==
    /\ pc = "check_same"
    /\ pc' = "load"
    /\ UNCHANGED <<output, outcome, exit_status>>
    /\ UNCHANGED <<inputs, run, remote, locals, executed, propagated>>

\* main, lines 317-329: equal coordinates are refused, others are moved.
MainCheckSame ==
    /\ pc = "check_same"
    /\ IF from_position = to_position
       THEN /\ output' = Append(output, Out("same"))
            /\ Exit("same_position")
       ELSE /\ pc' = "load"
            /\ UNCHANGED <<output, outcome, exit_status>>
    /\ UNCHANGED <<inputs, run, remote, locals, executed, propagated>>

\* ---------------------------------------------------------- move_chess_piece
\* Lines 176-184: open and parse command.json.
MoveLoad ==
    /\ pc = "load"
    /\ IF fileState = "missing"
       THEN /\ output' = Append(output, Out("file_not_found"))
            /\ Exit("config_missing")
            /\ UNCHANGED commands
       ELSE IF fileState = "malformed"
       THEN /\ output' = Append(output, Out("invalid_json"))
            /\ Exit("config_malformed")
            /\ UNCHANGED commands
       ELSE /\ commands' = fileContent
            /\ pc' = "check_from"
            /\ UNCHANGED <<output, outcome, exit_status>>
    /\ UNCHANGED <<inputs, run, remote, from_position, to_position, step, sequence, idx,
                   executed, propagated>>

\* Lines 187-189.
MoveCheckFrom ==
    /\ pc = "check_from"
    /\ IF from_position \notin DOMAIN commands
       THEN /\ output' = Append(output, Out("position_not_found"))
            /\ Exit("from_not_in_commands")
       ELSE /\ pc' = "check_to"
            /\ UNCHANGED <<output, outcome, exit_status>>
    /\ UNCHANGED <<inputs, run, remote, locals, executed, propagated>>

\* MoveCheckTo without the membership test.
MoveCheckTo_unchecked ==
    /\ pc = "check_to"
    /\ pc' = "step"
    /\ step' = 1
    /\ output' = Append(output, Out("starting"))
    /\ UNCHANGED <<outcome, exit_status>>
    /\ UNCHANGED <<inputs, run, remote, from_position, to_position, commands, sequence, idx,
                   executed, propagated>>

\* Lines 191-203: the second membership test, then the banner.
MoveCheckTo ==
    /\ pc = "check_to"
    /\ IF to_position \notin DOMAIN commands
       THEN /\ output' = Append(output, Out("position_not_found"))
            /\ Exit("to_not_in_commands")
            /\ UNCHANGED step
       ELSE /\ pc' = "step"
            /\ step' = 1
            /\ output' = Append(output, Out("starting"))
            /\ UNCHANGED <<outcome, exit_status>>
    /\ UNCHANGED <<inputs, run, remote, from_position, to_position, commands, sequence, idx,
                   executed, propagated>>

HomeSteps == {5, 9}

\* StepLabel with the gripper commands of STEP 4 and STEP 8 exchanged.
StepLabel_swapped(k) ==
    CASE k = 1 -> ATTACK
      [] k = 2 -> OPEN
      [] k = 3 -> from_position
      [] k = 4 -> OPEN
      [] k = 6 -> ATTACK
      [] k = 7 -> to_position
      [] k = 8 -> CLOSE
      [] k = 10 -> CLOSE
      [] k = 11 -> MOVE_FOR_CAM
      [] OTHER -> HOME

\* Lines 205-241: the command each STEP asks execute_command_sequence for.
StepLabel(k) ==
    CASE k = 1 -> ATTACK
      [] k = 2 -> OPEN
      [] k = 3 -> from_position
      [] k = 4 -> CLOSE
      [] k = 6 -> ATTACK
      [] k = 7 -> to_position
      [] k = 8 -> OPEN
      [] k = 10 -> CLOSE
      [] k = 11 -> MOVE_FOR_CAM
      [] OTHER -> HOME

\* Lines 196-197, 220, 234: the entry a home STEP is synthesized from.
HomeData(k) == IF k = 5 THEN POSITION_DATA[from_position] ELSE POSITION_DATA[to_position]

Event(kind) ==
    [kind |-> kind, step |-> step, exec |-> Len(executed), conn |-> connects, idx |-> idx]

\* Entry of execute_robot_sequence, lines 95-103.
CallExecutor(name, seq) ==
    /\ sequence' = seq
    /\ idx' = 0
    /\ executed' = Append(executed, [step |-> step, name |-> name, sequence |-> seq])
    /\ pc' = "connect"

\* execute_command_sequence running an empty sequence for an unknown command.
execute_command_sequence_default(command_name) ==
    /\ output' = Append(output, Out("executing"))
    /\ CallExecutor(command_name,
                    IF command_name \in DOMAIN commands THEN commands[command_name] ELSE <<>>)
    /\ UNCHANGED step

\* execute_command_sequence, lines 144-151.
execute_command_sequence(command_name) ==
    IF command_name \notin DOMAIN commands
    THEN /\ output' = Append(output, Out("command_not_found"))
         /\ step' = step + 1
         /\ UNCHANGED <<pc, sequence, idx, executed>>
    ELSE /\ output' = Append(output, Out("executing"))
         /\ CallExecutor(command_name, commands[command_name])
         /\ UNCHANGED step

\* MoveStep taking each command out of the Command Store as it runs it.
MoveStep_consume ==
    /\ pc = "step"
    /\ step \in 1..11
    /\ IF step \in HomeSteps
       THEN /\ output' = Append(output, Out("executing_home"))
            /\ CallExecutor(HOME, create_home_sequence(HomeData(step).forward,
                                                       HomeData(step).rotation))
            /\ UNCHANGED <<step, commands>>
       ELSE /\ execute_command_sequence(StepLabel(step))
            /\ commands' = [label \in DOMAIN commands \ {StepLabel(step)} |-> commands[label]]
    /\ UNCHANGED <<inputs, run, remote, from_position, to_position, propagated, outcome,
                   exit_status>>

\* The start of one STEP of move_chess_piece, lines 206-241.
MoveStep ==
    /\ pc = "step"
    /\ step \in 1..11
    /\ IF step \in HomeSteps
       THEN /\ output' = Append(output, Out("executing_home"))
            /\ CallExecutor(HOME, create_home_sequence(HomeData(step).forward,
                                                       HomeData(step).rotation))
            /\ UNCHANGED step
       ELSE execute_command_sequence(StepLabel(step))
    /\ UNCHANGED <<inputs, run, remote, from_position, to_position, commands, propagated, outcome, exit_status>>

\* Lines 243-244, then the returns of move_chess_piece and main.
MoveComplete ==
    /\ pc = "step"
    /\ step = 12
    /\ output' = Append(output, Out("success"))
    /\ Exit("success")
    /\ UNCHANGED <<inputs, run, remote, locals, executed, propagated>>

\* ---------------------------------------------------- execute_robot_sequence
\* Release that leaves the session open.
Release_leak(kinds) ==
    /\ events' = events \o [n \in 1..Len(kinds) |-> Event(kinds[n])]
    /\ UNCHANGED <<session, openConns, connects>>

\* Leaving the two "async with" blocks of lines 104-105 closes what is open.
Release(kinds) ==
    IF session # "none"
    THEN /\ session' = "none"
         /\ openConns' = openConns - 1
         /\ events' = events \o [n \in 1..Len(kinds) |-> Event(kinds[n])] \o <<Event("close")>>
         /\ UNCHANGED connects
    ELSE /\ events' = events \o [n \in 1..Len(kinds) |-> Event(kinds[n])]
         /\ UNCHANGED <<session, openConns, connects>>

\* Connect handing out one connection kept for the whole run.
Connect_shared ==
    /\ pc = "connect"
    /\ session' = "connected"
    /\ openConns' = openConns + 1
    /\ connects' = 1
    /\ events' = Append(events, [Event("connect") EXCEPT !.conn = 1])
    /\ pc' = "initialize"
    /\ UNCHANGED <<inputs, run, locals, executed, output, propagated, outcome, exit_status>>

\* Line 104: the server subprocess is started and the transport connected.
Connect ==
    /\ pc = "connect"
    /\ session' = "connected"
    /\ openConns' = openConns + 1
    /\ connects' = connects + 1
    /\ events' = Append(events, [Event("connect") EXCEPT !.conn = connects + 1])
    /\ pc' = "initialize"
    /\ UNCHANGED <<inputs, run, locals, executed, output, propagated, outcome, exit_status>>

ConnectFail ==
    /\ pc = "connect"
    /\ Release(<<"fail">>)
    /\ pc' = "except_exec"
    /\ UNCHANGED <<inputs, run, locals, executed, output, propagated, outcome, exit_status>>

\* Initialize entering the loop without the handshake of line 106.
Initialize_skipped ==
    /\ pc = "initialize"
    /\ idx' = 1
    /\ pc' = "loop"
    /\ UNCHANGED <<inputs, run, remote, from_position, to_position, commands, step, sequence,
                   executed, output, propagated, outcome, exit_status>>

\* Lines 105-106: the client session and its initialize handshake.
Initialize ==
    /\ pc = "initialize"
    /\ session' = "initialized"
    /\ events' = Append(events, Event("initialize"))
    /\ idx' = 1
    /\ pc' = "loop"
    /\ UNCHANGED <<inputs, run, from_position, to_position, commands, step, sequence,
                   openConns, connects, executed, output, propagated, outcome, exit_status>>

InitializeFail ==
    /\ pc = "initialize"
    /\ Release(<<"fail">>)
    /\ pc' = "except_exec"
    /\ UNCHANGED <<inputs, run, locals, executed, output, propagated, outcome, exit_status>>

\* Line 112: the sleep asked for, with its duration.
Waited(instruction) == Event("wait") @@ [wait |-> instruction.wait]

\* Line 118: the dispatch, with the tool and the arguments sent.
Called(instruction) == Event("call") @@ [tool |-> instruction.tool, args |-> instruction.args]

\* Loop dispatching without awaiting the response.
Loop_unawaited ==
    /\ pc = "loop"
    /\ IF idx > Len(sequence)
       THEN /\ Release(<<>>)
            /\ step' = step + 1
            /\ pc' = "step"
       ELSE /\ IF "wait" \in DOMAIN sequence[idx]
               THEN /\ events' = Append(events, Waited(sequence[idx]))
                    /\ pc' = "waiting"
               ELSE /\ events' = events \o <<Called(sequence[idx]), Event("pause")>>
                    /\ pc' = "pause"
            /\ UNCHANGED <<step, session, openConns, connects>>
    /\ UNCHANGED <<inputs, run, from_position, to_position, commands, sequence, idx,
                   executed, output, propagated, outcome, exit_status>>

\* Lines 108-118: the head of the for loop and the instruction it starts;
\* after the last instruction the session is closed and the call returns.
Loop ==
    /\ pc = "loop"
    /\ IF idx > Len(sequence)
       THEN /\ Release(<<>>)
            /\ step' = step + 1
            /\ pc' = "step"
       ELSE /\ IF "wait" \in DOMAIN sequence[idx]
               THEN /\ events' = Append(events, Waited(sequence[idx]))
                    /\ pc' = "waiting"
               ELSE /\ events' = Append(events, Called(sequence[idx]))
                    /\ pc' = "inflight"
            /\ UNCHANGED <<step, session, openConns, connects>>
    /\ UNCHANGED <<inputs, run, from_position, to_position, commands, sequence, idx,
                   executed, output, propagated, outcome, exit_status>>

\* WaitDone going straight to the next instruction: the pause of line 121
\* made only after a dispatch.
WaitDone_nopause ==
    /\ pc = "waiting"
    /\ idx' = idx + 1
    /\ pc' = "loop"
    /\ UNCHANGED <<inputs, run, remote, from_position, to_position, commands, step, sequence,
                   executed, output, propagated, outcome, exit_status>>

\* Line 112 returns, line 121 begins.
WaitDone ==
    /\ pc = "waiting"
    /\ events' = Append(events, Event("pause"))
    /\ pc' = "pause"
    /\ UNCHANGED <<inputs, run, locals, session, openConns, connects, executed, output,
                   propagated, outcome, exit_status>>

\* DispatchOk going on although no response has come.
DispatchOk_unanswered ==
    /\ pc = "inflight"
    /\ events' = Append(events, Event("pause"))
    /\ pc' = "pause"
    /\ UNCHANGED <<inputs, run, locals, session, openConns, connects, executed, output,
                   propagated, outcome, exit_status>>

\* Lines 118-121: call_tool returns its result.
DispatchOk ==
    /\ pc = "inflight"
    /\ events' = events \o <<Event("response"), Event("pause")>>
    /\ pc' = "pause"
    /\ UNCHANGED <<inputs, run, locals, session, openConns, connects, executed, output,
                   propagated, outcome, exit_status>>

\* DispatchFail dispatching the same instruction again.
DispatchFail_retry ==
    /\ pc = "inflight"
    /\ events' = Append(events, Event("fail"))
    /\ pc' = "loop"
    /\ UNCHANGED <<inputs, run, locals, session, openConns, connects, executed, output,
                   propagated, outcome, exit_status>>

\* Line 118 raises: the with blocks unwind towards the handler of line 123.
DispatchFail ==
    /\ pc = "inflight"
    /\ Release(<<"fail">>)
    /\ pc' = "except_exec"
    /\ UNCHANGED <<inputs, run, locals, executed, output, propagated, outcome, exit_status>>

\* Line 121 returns: next iteration.
PauseDone ==
    /\ pc = "pause"
    /\ idx' = idx + 1
    /\ pc' = "loop"
    /\ UNCHANGED <<inputs, run, remote, from_position, to_position, commands, step, sequence,
                   executed, output, propagated, outcome, exit_status>>

\* Lines 123-125.
ExceptExecutor ==
    /\ pc = "except_exec"
    /\ output' = Append(output, Out("error_executing_sequence"))
    /\ propagated' = Append(propagated, "execute_robot_sequence")
    /\ pc' = "except_move"
    /\ UNCHANGED <<inputs, run, remote, locals, executed, outcome, exit_status>>

\* ExceptMove without the raise: the failure is printed and swallowed.
ExceptMove_swallow ==
    /\ pc = "except_move"
    /\ output' = Append(output, Out("error_during_chess_move"))
    /\ Exit("error")
    /\ UNCHANGED <<inputs, run, remote, locals, executed, propagated>>

\* Lines 246-248.
ExceptMove ==
    /\ pc = "except_move"
    /\ output' = Append(output, Out("error_during_chess_move"))
    /\ propagated' = Append(propagated, "move_chess_piece")
    /\ pc' = "except_top"
    /\ UNCHANGED <<inputs, run, remote, locals, executed, outcome, exit_status>>

\* Lines 332-337: the exception leaves main and asyncio.run.
ExceptTop ==
    /\ pc = "except_top"
    /\ output' = Append(output, Out("unexpected_error"))
    /\ Exit("error")
    /\ UNCHANGED <<inputs, run, remote, locals, executed, propagated>>

Awaiting == {"connect", "initialize", "waiting", "inflight", "pause"}

\* A user interrupt while the executor is suspended: the task is cancelled,
\* the with blocks unwind, and line 334 catches KeyboardInterrupt.
Interrupt ==
    /\ pc \in Awaiting
    /\ Release(<<"interrupt">>)
    /\ output' = Append(output, Out("interrupted"))
    /\ Exit("interrupted")
    /\ UNCHANGED <<inputs, run, locals, executed, propagated>>

Next ==
    \/ MainArgs
    \/ MainValidateFrom
    \/ MainValidateTo
    \/ MainCheckSame
    \/ MoveLoad
    \/ MoveCheckFrom
    \/ MoveCheckTo
    \/ MoveStep
    \/ MoveComplete
    \/ Connect
    \/ ConnectFail
    \/ Initialize
    \/ InitializeFail
    \/ Loop
    \/ WaitDone
    \/ DispatchOk
    \/ DispatchFail
    \/ PauseDone
    \/ ExceptExecutor
    \/ ExceptMove
    \/ ExceptTop
    \/ Interrupt

Spec == Init /\ [][Next]_vars

\* ------------------------------------------------------------- round trip
\* move_chess_piece is called again with the two coordinates exchanged,
\* lines 169-173: its locals are fresh, the histories start over, and
\* whatever connection was left open is still open.
SecondCall ==
    /\ pc = "exit"
    /\ outcome \in {"success", "error"}
    /\ run < MaxRuns
    /\ run' = run + 1
    /\ from_position' = to_position
    /\ to_position' = from_position
    /\ pc' = "load"
    /\ commands' = <<>>
    /\ step' = 0
    /\ sequence' = <<>>
    /\ idx' = 0
    /\ connects' = 0
    /\ executed' = <<>>
    /\ events' = <<>>
    /\ output' = <<>>
    /\ propagated' = <<>>
    /\ outcome' = ""
    /\ exit_status' = -1
    /\ UNCHANGED <<inputs, session, openConns>>

NextRoundTrip ==
    \/ Next
    \/ SecondCall

SpecRoundTrip == Init /\ [][NextRoundTrip]_vars

\* ------------------------------------------- the pure functions, exercised
\* Characters of the raw arguments explored: every column and row, and
\* characters outside both ranges.
Alphabet ==
    {"a", "b", "c", "d", "e", "f", "g", "h", "i", "D",
     "1", "2", "3", "4", "5", "6", "7", "8", "9", "0"}

InputStrings == UNION { [1..n -> Alphabet] : n \in 0..MaxStrLen }

FullStore == [label \in LabelUniverse |-> CmdSeq(label, 1)]

\* A process given any raw string as its first argument.
InitPure ==
    /\ sys_argv \in { <<PROG, raw, d5>> : raw \in InputStrings }
    /\ fileState = "ok"
    /\ fileContent = FullStore
    /\ pc = "pure"
    /\ from_position = <<>>
    /\ to_position = <<>>
    /\ commands = <<>>
    /\ step = 0
    /\ sequence = <<>>
    /\ idx = 0
    /\ session = "none"
    /\ openConns = 0
    /\ connects = 0
    /\ executed = <<>>
    /\ events = <<>>
    /\ output = <<>>
    /\ propagated = <<>>
    /\ outcome = ""
    /\ exit_status = -1
    /\ run = 1

\* validate_position applied to the argument as typed, lines 153-167.
PureValidate ==
    /\ pc = "pure"
    /\ output' = Append(output, Out(validate_position(sys_argv[2]).rule))
    /\ pc' = "main"
    /\ UNCHANGED <<inputs, run, remote, locals, executed, propagated, outcome, exit_status>>

\* create_home_sequence applied to the entry of a validated coordinate,
\* lines 196 and 220.
PureHome ==
    /\ pc = "validate_to"
    /\ sequence' = create_home_sequence(POSITION_DATA[from_position].forward,
                                        POSITION_DATA[from_position].rotation)
    /\ pc' = "pure_done"
    /\ UNCHANGED <<inputs, run, remote, from_position, to_position, commands, step, idx,
                   executed, output, propagated, outcome, exit_status>>

NextPure ==
    \/ PureValidate
    \/ MainArgs
    \/ MainValidateFrom
    \/ PureHome

SpecPure == InitPure /\ [][NextPure]_vars

\* The thread of control takes its next step whenever it has one, and the
\* remote interface answers (or fails) every connection, handshake and
\* dispatch: some step of the run is eventually taken while one is possible.
SpecLive == Init /\ [][Next]_vars /\ WF_vars(Next)

TypeOK ==
    /\ pc \in {"main", "validate_from", "validate_to", "check_same", "load", "check_from",
               "check_to", "step", "connect", "initialize", "loop", "waiting", "inflight",
               "pause", "except_exec", "except_move", "except_top", "exit",
               "pure", "pure_done"}
    /\ session \in {"none", "connected", "initialized"}
    /\ openConns \in 0..1
    /\ step \in 0..12

\* ------------------------------------------------------------------ helpers
Range(f) == { f[n] : n \in DOMAIN f }

IsPrefix(s, t) == Len(s) <= Len(t) /\ \A n \in 1..Len(s) : s[n] = t[n]

NamedLabels == {ATTACK, OPEN, CLOSE, MOVE_FOR_CAM}

Started == step >= 1

Run(n, name, seq) == [step |-> n, name |-> name, sequence |-> seq]

HomeOf(position) ==
    create_home_sequence(POSITION_DATA[position].forward, POSITION_DATA[position].rotation)

\* The eleven executions of section 4.5, written out.
PlanStep(n) ==
    CASE n = 1 -> Run(1, ATTACK, fileContent[ATTACK])
      [] n = 2 -> Run(2, OPEN, fileContent[OPEN])
      [] n = 3 -> Run(3, from_position, fileContent[from_position])
      [] n = 4 -> Run(4, CLOSE, fileContent[CLOSE])
      [] n = 5 -> Run(5, HOME, HomeOf(from_position))
      [] n = 6 -> Run(6, ATTACK, fileContent[ATTACK])
      [] n = 7 -> Run(7, to_position, fileContent[to_position])
      [] n = 8 -> Run(8, OPEN, fileContent[OPEN])
      [] n = 9 -> Run(9, HOME, HomeOf(to_position))
      [] n = 10 -> Run(10, CLOSE, fileContent[CLOSE])
      [] n = 11 -> Run(11, MOVE_FOR_CAM, fileContent[MOVE_FOR_CAM])

Plan == [n \in 1..11 |-> PlanStep(n)]

Motionless == connects = 0 /\ events = <<>> /\ executed = <<>>

Unwinding == {"except_exec", "except_move", "except_top", "exit"}

\* -------------------------------------------------------------------- claims
\* C1: with "attack", "open", "close", "move_for_cam" and both coordinates in
\* the Command Store, the executions of a move are at every moment a prefix of
\* the eleven-step plan, and a move that completes has performed exactly the
\* eleven of them, in order.
C1_ElevenExecutionsInOrder ==
    (Started /\ NamedLabels \subseteq DOMAIN commands)
        => /\ IsPrefix(executed, Plan)
           /\ (outcome = "success" => executed = Plan)

C1_Witness ==
    /\ outcome = "success"
    /\ NamedLabels \subseteq DOMAIN commands
    /\ from_position # to_position
    /\ Len(executed) = 11
    /\ \A n \in 1..11 : Len(executed[n].sequence) >= 1

CloseMissing == Started /\ DOMAIN commands = LabelUniverse \ {CLOSE}

C3_AbsentLabelAborts ==
    \A n \in DOMAIN output :
        output[n].msg = "command_not_found"
            => /\ \A m \in DOMAIN executed : executed[m].step <= output[n].step
               /\ \A m \in DOMAIN events : events[m].step <= output[n].step
               /\ step <= output[n].step + 1
               /\ outcome # "success"

\* C4: once a connection, an initialization or a dispatch has failed during
\* step k, no sequence is started after the one that failed (neither a later
\* step nor a compensating one), nothing but the release of the connection
\* follows on the remote interface, and the exception leaves move_chess_piece.
C4_FailureAbortsAndPropagates ==
    \A n \in DOMAIN events :
        events[n].kind = "fail"
            => /\ \A m \in DOMAIN events : m > n => events[m].kind = "close"
               /\ Len(executed) = events[n].exec
               /\ step = events[n].step
               /\ pc \in Unwinding
               /\ (pc \in {"except_top", "exit"} => "move_chess_piece" \in Range(propagated))
               /\ (pc = "exit" => outcome = "error")

C4_Witness ==
    /\ pc = "exit"
    /\ outcome = "error"
    /\ step = 5
    /\ \E n \in DOMAIN events : events[n].kind = "fail" /\ events[n].step = 5

\* C5: when the dispatch of instruction i of a sequence fails, no later
\* instruction is dispatched or waited on, instruction i was dispatched only
\* once, and execute_robot_sequence re-raises.
C5_DispatchFailureStopsSequence ==
    \A n \in DOMAIN events :
        (events[n].kind = "fail" /\ events[n].idx >= 1)
            => /\ \A m \in DOMAIN events :
                    m > n => events[m].kind \notin {"call", "wait", "pause", "response"}
               /\ Cardinality({ m \in DOMAIN events :
                                  /\ events[m].kind = "call"
                                  /\ events[m].exec = events[n].exec
                                  /\ events[m].idx = events[n].idx }) = 1
               /\ pc \in Unwinding
               /\ (pc # "except_exec" => "execute_robot_sequence" \in Range(propagated))

C5_Witness ==
    /\ pc = "exit"
    /\ \E n \in DOMAIN events :
          /\ events[n].kind = "fail"
          /\ events[n].idx >= 1
          /\ events[n].idx < Len(sequence)
    /\ "execute_robot_sequence" \in Range(propagated)

\* C6: two arguments that name the same coordinate once lowercased are
\* refused before anything is executed: no connection, no dispatch.
C6_SameCoordinateRejected ==
    (Len(sys_argv) = 3 /\ Lower(sys_argv[2]) = Lower(sys_argv[3]))
        => Motionless /\ step = 0

C6_Witness ==
    /\ outcome = "same_position"
    /\ sys_argv[2] # sys_argv[3]
    /\ from_position \in DOMAIN fileContent
    /\ NamedLabels \subseteq DOMAIN fileContent

LocalError ==
    \/ Len(sys_argv) # 3
    \/ /\ Len(sys_argv) = 3
       /\ \/ ~validate_position(Lower(sys_argv[2])).valid
          \/ ~validate_position(Lower(sys_argv[3])).valid
    \/ fileState # "ok"

\* C7: a wrong argument count, an invalid coordinate, or a missing or
\* malformed command.json means that no connection is ever opened and no
\* instruction is ever dispatched.
C7_NoMotionOnLocalError == LocalError => Motionless /\ step = 0

C7_Witness ==
    /\ pc = "exit"
    /\ outcome = "bad_arguments"
    /\ Len(sys_argv) > 3
    /\ fileState = "ok"
    /\ LabelUniverse \subseteq DOMAIN fileContent

\* C8: step 1 begins only with both coordinates among the labels of the
\* loaded Command Store; with either one absent nothing is executed.
C8_CoordinateLabelsRequired ==
    (from_position \notin DOMAIN commands \/ to_position \notin DOMAIN commands)
        => Motionless /\ step = 0

C8_Witness ==
    /\ outcome = "to_not_in_commands"
    /\ DOMAIN commands = LabelUniverse \ {to_position}

Completed == outcome = "success" /\ Len(executed) = 11

Count(kind) == Cardinality({ n \in DOMAIN events : events[n].kind = kind })

\* C9 as stated: a complete run of the plan connects and initializes exactly
\* once, and every dispatch goes through that one connection.
C9_OneConnectionPerRun ==
    Completed
        => /\ connects = 1
           /\ Count("initialize") = 1
           /\ \A n \in DOMAIN events : events[n].kind = "call" => events[n].conn = 1

\* C9 amended: the connection is acquired once per sequence execution; a
\* complete run of the plan connects and initializes exactly eleven times, and
\* every dispatch goes through the connection opened for its own execution.
C9_OneConnectionPerExecution ==
    /\ connects <= Len(executed)
    /\ \A n \in DOMAIN events :
          events[n].kind \in {"call", "initialize"} => events[n].conn = events[n].exec
    /\ (Completed => connects = 11 /\ Count("connect") = 11 /\ Count("initialize") = 11)

C9_Witness ==
    /\ Completed
    /\ connects = 11
    /\ \E n \in DOMAIN events : events[n].kind = "call" /\ events[n].conn = 11

\* C10: in every terminal state, and whenever execute_robot_sequence is not
\* running, no connection is open.
C10_ConnectionReleased ==
    (pc \notin {"initialize", "loop", "waiting", "inflight", "pause"})
        => openConns = 0 /\ session = "none"

C10_Witness ==
    /\ pc = "exit"
    /\ outcome = "interrupted"
    /\ Len(events) >= 3
    /\ events[Len(events)].kind = "close"
    /\ events[Len(events) - 1].kind = "interrupt"
    /\ events[Len(events) - 2].kind = "call"

\* Dispatches issued whose response, failure or cancellation has not come.
Outstanding ==
    { n \in DOMAIN events :
        /\ events[n].kind = "call"
        /\ ~\E m \in DOMAIN events :
              /\ m > n
              /\ events[m].kind \in {"response", "fail", "interrupt"}
              /\ events[m].exec = events[n].exec
              /\ events[m].idx = events[n].idx }

\* C11: at most one dispatch is in flight, the event that follows a dispatch
\* is its own response (or failure, or the interrupt), so the next dispatch
\* comes after it, and no dispatch is in flight during a delay or a pause.
C11_OneOperationAtATime ==
    /\ Cardinality(Outstanding) <= 1
    /\ (Outstanding # {} <=> pc = "inflight")
    /\ \A n \in DOMAIN events :
          (events[n].kind = "call" /\ n < Len(events))
              => /\ events[n + 1].kind \in {"response", "fail", "interrupt"}
                 /\ events[n + 1].exec = events[n].exec
                 /\ events[n + 1].idx = events[n].idx
    /\ (pc \in {"waiting", "pause"} => Outstanding = {})

C11_Witness ==
    /\ pc = "inflight"
    /\ Cardinality(Outstanding) = 1
    /\ \E n \in DOMAIN events : events[n].kind = "response"
    /\ \E n \in DOMAIN events : events[n].kind = "wait"

NotFound == \E n \in DOMAIN output : output[n].msg = "command_not_found"

\* The taxonomy: a rejected coordinate, an unreadable command.json, a label
\* absent from the Command Store, a failed connection or dispatch.
TaxonomyError ==
    \/ outcome \in {"invalid_from", "invalid_to"}
    \/ outcome \in {"config_missing", "config_malformed"}
    \/ outcome \in {"from_not_in_commands", "to_not_in_commands"}
    \/ NotFound
    \/ outcome = "error"

C20_SuccessMeansAllEleven ==
    outcome = "success" => Len(executed) = 11 /\ ~NotFound

Looked == POSITION_DATA[from_position]

\* C13: for the entry of every coordinate of the Position Table,
\* create_home_sequence returns raise 50, tilt -80, raise -75, forward by
\* -forward, and then a rotation by -rotation exactly when rotation is not 0:
\* five instructions for a7 (70, -90), the fifth rotating by +90, four for d7.
C13_HomeSequenceShape ==
    pc = "pure_done"
        => /\ Len(sequence) = IF Looked.rotation # 0 THEN 5 ELSE 4
           /\ sequence[1] = Tool("move_gripper_up_mm", Str(50))
           /\ sequence[2] = Tool("tilt_gripper_down_angle", Str(-80))
           /\ sequence[3] = Tool("move_gripper_up_mm", Str(-75))
           /\ sequence[4] = Tool("move_gripper_forward_mm", Str(-Looked.forward))
           /\ (Looked.rotation # 0
                 => sequence[5] = Tool("rotate_robot_right_angle", Str(-Looked.rotation)))
           /\ \A n \in DOMAIN sequence :
                 sequence[n].args.name = "rotate_robot_right_angle"
                     => sequence[n].args.value # <<"0">>
           /\ (from_position = a7
                 => Len(sequence) = 5 /\ sequence[5].args.value = <<"9", "0">>)
           /\ (from_position = d7 => Len(sequence) = 4)

C13_Witness ==
    /\ pc = "pure_done"
    /\ from_position = a7
    /\ Looked = [forward |-> 70, rotation |-> -90]
    /\ Len(sequence) = 5

Columns == {"a", "b", "c", "d", "e", "f", "g", "h"}
RowDigits == {"1", "2", "3", "4", "5", "6", "7", "8"}

\* The rules of section 4.6 that a string violates, by their order.
Violated(s) ==
    { r \in 1..4 :
        \/ r = 1 /\ Len(s) # 2
        \/ r = 2 /\ (Len(s) < 1 \/ s[1] \notin Columns)
        \/ r = 3 /\ (Len(s) < 2 \/ s[2] \notin RowDigits)
        \/ r = 4 /\ s \notin POSITION_KEYS }

RuleNames == <<"format", "column", "row", "unavailable">>

FirstViolated(s) ==
    IF Violated(s) = {} THEN "ok"
    ELSE RuleNames[CHOOSE r \in Violated(s) : \A q \in Violated(s) : r <= q]

\* C14: validate_position accepts a string exactly when it violates none of
\* the four rules and otherwise reports the lowest-ordered violated rule:
\* "d7" is accepted, "d" fails rule (a), "i9" and "D7" fail rule (b); and main
\* validates its argument only after lowercasing it.
C14_FirstViolatedRuleWins ==
    /\ pc # "pure"
          => /\ output[1].msg = FirstViolated(sys_argv[2])
             /\ (sys_argv[2] = d7 => output[1].msg = "ok")
             /\ (sys_argv[2] = <<"d">> => output[1].msg = "format")
             /\ (sys_argv[2] = <<"i", "9">> => output[1].msg = "column")
             /\ (sys_argv[2] = <<"D", "7">> => output[1].msg = "column")
    /\ pc \notin {"pure", "main"} => from_position = Lower(sys_argv[2])
    /\ outcome = "invalid_from"
          => /\ output[2].msg = FirstViolated(from_position)
             /\ Violated(from_position) # {}
    /\ pc \in {"validate_to", "pure_done"} => Violated(from_position) = {}

C14_Witness ==
    /\ pc = "validate_to"
    /\ sys_argv[2] = <<"D", "7">>
    /\ output[1].msg = "column"
    /\ from_position = d7

Rotations == {-90, -67, -45, -22, 0, 22, 45, 67, 90}

\* C15: the Position Table has one entry for each of the 64 coordinates and
\* no other key, each with forward > 0 and a rotation among the nine angles;
\* so has the entry of every coordinate that passes validation.
C15_PositionTableComplete ==
    /\ Len(POSITION_ENTRIES) = 64
    /\ Cardinality(POSITION_KEYS) = 64
    /\ DOMAIN POSITION_DATA = { <<c, r>> : c \in Columns, r \in RowDigits }
    /\ \A key \in DOMAIN POSITION_DATA :
          POSITION_DATA[key].forward > 0 /\ POSITION_DATA[key].rotation \in Rotations
    /\ pc \in {"validate_to", "pure_done"}
          => /\ from_position \in DOMAIN POSITION_DATA
             /\ Looked.forward > 0
             /\ Looked.rotation \in Rotations

C15_Witness ==
    /\ pc = "pure_done"
    /\ from_position = <<"g", "1">>
    /\ Looked = [forward |-> 691, rotation |-> 67]

\* C16: a call of move_chess_piece that follows another one, successful or
\* failed, with the coordinates exchanged finds no connection left open, loads
\* the Command Store the file holds, which no step ever changes, and executes
\* the eleven-step plan of its own arguments as a first call would.
C16_NoResidualState ==
    /\ commands = <<>> \/ commands = fileContent
    /\ (pc \in {"check_from", "check_to"} \/ Started) => commands = fileContent
    /\ run >= 2
          => /\ from_position = Lower(sys_argv[IF run = 2 THEN 3 ELSE 2])
             /\ to_position = Lower(sys_argv[IF run = 2 THEN 2 ELSE 3])
             /\ (pc = "load" => session = "none" /\ openConns = 0 /\ sequence = <<>>)
             /\ (Started /\ NamedLabels \subseteq DOMAIN commands)
                   => /\ IsPrefix(executed, Plan)
                      /\ (outcome = "success" => executed = Plan)

C16_Witness ==
    /\ run = 2
    /\ outcome = "success"
    /\ Len(executed) = 11
    /\ from_position = Lower(sys_argv[3])
    /\ to_position = Lower(sys_argv[2])
    /\ NamedLabels \subseteq DOMAIN commands
    /\ Len(executed[1].sequence) >= 1

\* What an event shows of the instruction it belongs to.
Shape(ev) ==
    CASE ev.kind = "call" -> <<"call", ev.idx, ev.tool, ev.args>>
      [] ev.kind = "wait" -> <<"wait", ev.idx, ev.wait>>
      [] OTHER -> <<ev.kind, ev.idx>>

\* The replay section 4.3 prescribes for the instructions i.. of a sequence.
RECURSIVE Replay(_, _)
Replay(seq, i) ==
    IF i > Len(seq) THEN <<>>
    ELSE (IF "wait" \in DOMAIN seq[i]
          THEN << <<"wait", i, seq[i].wait>>, <<"pause", i>> >>
          ELSE << <<"call", i, seq[i].tool, seq[i].args>>, <<"response", i>>, <<"pause", i>> >>)
         \o Replay(seq, i + 1)

\* The waits, dispatches, responses and pauses of execution e, in order.
Replayed(e) ==
    LET Mine(ev) == ev.exec = e /\ ev.kind \in {"wait", "call", "response", "pause"}
        mine == SelectSeq(events, Mine)
    IN  [n \in 1..Len(mine) |-> Shape(mine[n])]

Ended(e, kinds) == \E n \in DOMAIN events : events[n].exec = e /\ events[n].kind \in kinds

\* C17: what an execution has done so far is a prefix of the replay of its
\* sequence (one wait and a pause per delay directive, one dispatch of the
\* instruction's tool and args, its response and a pause per other
\* instruction, in list order), and an execution that was closed without a
\* failure or an interrupt has done all of it.
C17_ReplayInListOrder ==
    \A e \in DOMAIN executed :
        /\ IsPrefix(Replayed(e), Replay(executed[e].sequence, 1))
        /\ (Ended(e, {"close"}) /\ ~Ended(e, {"fail", "interrupt"}))
              => Replayed(e) = Replay(executed[e].sequence, 1)

C17_Witness ==
    /\ Len(executed) >= 5
    /\ Ended(5, {"close"})
    /\ ~Ended(5, {"fail", "interrupt"})
    /\ Len(Replayed(1)) >= 5
    /\ \E n \in DOMAIN events : events[n].exec = 1 /\ events[n].kind = "wait"

\* The orchestrator leaves an in-flight dispatch only on its response, its
\* failure or an interrupt, and starts nothing while it waits for one.
LeavesDispatchOnlyOnReturn ==
    (pc = "inflight" /\ pc' # "inflight")
        => /\ Len(events') > Len(events)
           /\ events'[Len(events) + 1].kind \in {"response", "fail", "interrupt"}
           /\ step' = step
           /\ executed' = executed

\* C18: when the remote interface answers everything it is asked, the run
\* eventually ends (completed, failed or interrupted); and no timeout takes
\* the orchestrator out of a dispatch that has not returned, so it stays in
\* that step, with no later step started, for as long as the answer is missing.
C18_TerminatesUnlessRemoteHangs ==
    /\ <>(pc = "exit")
    /\ [][LeavesDispatchOnlyOnReturn]_vars

C18_Witness ==
    /\ pc = "exit"
    /\ outcome = "success"
    /\ Count("response") >= 11
    /\ Count("call") = Count("response")

Before(n, kind, conn) ==
    \E m \in DOMAIN events : m < n /\ events[m].kind = kind /\ events[m].conn = conn

\* C19: the remote interface is used in the order connect, initialize,
\* invoke*, close: a dispatch is made on a session that was connected and
\* initialized and is not yet closed, at most one session is open, and the
\* session of one execution is closed before the next one is connected.
C19_ProtocolOrder ==
    /\ openConns = IF session = "none" THEN 0 ELSE 1
    /\ (pc \in {"loop", "waiting", "inflight", "pause"} => session = "initialized")
    /\ (pc = "connect" => session = "none")
    /\ \A n \in DOMAIN events :
          /\ events[n].kind = "call"
                => /\ Before(n, "connect", events[n].conn)
                   /\ Before(n, "initialize", events[n].conn)
                   /\ ~Before(n, "close", events[n].conn)
          /\ events[n].kind = "initialize"
                => Before(n, "connect", events[n].conn) /\ ~Before(n, "close", events[n].conn)
          /\ events[n].kind = "close" => Before(n, "connect", events[n].conn)
          /\ (events[n].kind = "connect" /\ events[n].conn > 1)
                => Before(n, "close", events[n].conn - 1)

C19_Witness ==
    /\ pc = "inflight"
    /\ session = "initialized"
    /\ connects >= 2
    /\ Count("close") = connects - 1

====
